---- MODULE Spec2Model ----
(***************************************************************************)
(* A model of the roulette-wheel containers of this repository:            *)
(*   - src/src/lib.rs            RouletteWheel (two Vecs and a running     *)
(*                               total), SelectIter, IntoSelectIter        *)
(*   - src/src/roulette_wheel.rs RouletteWheel (a VecDeque of cards and a  *)
(*                               running proba_sum), pop                   *)
(*                                                                         *)
(* Weights are f32 in the source.  The model keeps the floating-point      *)
(* semantics (rounding to nearest, ties to even; overflow to infinity;     *)
(* NaN; comparisons with NaN are false) on a binary format scaled down to  *)
(* MantBits significant bits and a largest exponent EMax, every finite     *)
(* value being an integer number of the smallest quantum.  Signed zero is  *)
(* not distinguished (-0.0 compares equal to 0.0 in every test the code    *)
(* makes).                                                                 *)
(*                                                                         *)
(* A panic (a failed assert!, an unwrap of None) unwinds the caller: the   *)
(* run ends in the state the panic left.                                   *)
(***************************************************************************)
EXTENDS Integers, Sequences, FiniteSets, TLC

VARIABLES
    impl,         \* which RouletteWheel the run uses: "lib" or "deque"
    wheel,        \* lib.rs RouletteWheel: total_fitness, fitnesses, population
    holder,       \* lib.rs: who holds the wheel: "wheel", "select_iter", "into_iter"
    select_iter,  \* lib.rs SelectIter: total_fitness, fitnesses_ids
    into_iter,    \* lib.rs IntoSelectIter: total_fitness, fitnesses, population
    yielded,      \* the items the current draw session has returned so far
    second,       \* lib.rs: a second SelectIter borrowing the same wheel: live, it, yielded
    cards_wheel,  \* roulette_wheel.rs RouletteWheel: proba_sum, cards
    ret           \* the last call and what it returned

vars == <<impl, wheel, holder, select_iter, into_iter, yielded, second, cards_wheel, ret>>

\* ------------------------------------------------------------------ bounds

\* Largest number of entries a wheel holds in the model.
MaxLen == 3
\* Largest number of entries of a wheel that two sessions borrow at once.
MaxShared == 2
\* Significant bits of the scaled-down float format (f32 has 24).
MantBits == 3
\* Largest exponent of the scaled-down float format (f32 has 127).
EMax == 3
\* The uniform samples of [0, 1) are j / SampleDen, j in 0 .. SampleDen - 1.
SampleDen == 5

\* ------------------------------------------------------------------ f32

RECURSIVE Pow2(_)
Pow2(n) == IF n = 0 THEN 1 ELSE 2 * Pow2(n - 1)

\* f32::MAX of the scaled-down format, in quanta.
FMaxVal == (Pow2(MantBits) - 1) * Pow2(EMax)

Fin(n) == [c |-> "fin", v |-> n]
PosInf == [c |-> "inf", v |-> 1]
NegInf == [c |-> "inf", v |-> -1]
NaN    == [c |-> "nan", v |-> 0]
Zero   == Fin(0)

\* The quantum (unit in the last place) of the binade holding n / d >= 0.
RECURSIVE Quantum(_, _, _)
Quantum(n, d, q) ==
    IF n < d * q * Pow2(MantBits) THEN q ELSE Quantum(n, d, 2 * q)

\* n / d >= 0 rounded to the nearest representable magnitude, ties to even.
RoundMag(n, d) ==
    LET q == Quantum(n, d, 1)
        k == n \div (d * q)
        r == n - k * d * q
    IN  IF 2 * r < d * q THEN k * q
        ELSE IF 2 * r > d * q THEN (k + 1) * q
        ELSE IF k % 2 = 0 THEN k * q ELSE (k + 1) * q

\* The float nearest to the rational n / d (d > 0); overflow gives an infinity.
FRound(n, d) ==
    LET m == RoundMag(IF n < 0 THEN -n ELSE n, d)
    IN  IF m > FMaxVal
        THEN (IF n < 0 THEN NegInf ELSE PosInf)
        ELSE Fin(IF n < 0 THEN -m ELSE m)

FNeg(a) == IF a.c = "nan" THEN NaN ELSE [c |-> a.c, v |-> -a.v]

\* a + b
FAdd(a, b) ==
    IF a.c = "nan" \/ b.c = "nan" THEN NaN
    ELSE IF a.c = "inf" /\ b.c = "inf" THEN (IF a.v = b.v THEN a ELSE NaN)
    ELSE IF a.c = "inf" THEN a
    ELSE IF b.c = "inf" THEN b
    ELSE FRound(a.v + b.v, 1)

\* a - b
FSub(a, b) == FAdd(a, FNeg(b))

\* sample * t for the uniform sample j / SampleDen
FMulSample(j, t) ==
    IF t.c = "nan" THEN NaN
    ELSE IF t.c = "inf" THEN (IF j = 0 THEN NaN ELSE t)
    ELSE FRound(j * t.v, SampleDen)

\* a <= 0.0, a >= 0.0, a > 0.0: every comparison with NaN is false
FLe0(a) == a.c # "nan" /\ a.v <= 0
FGe0(a) == a.c # "nan" /\ a.v >= 0
FGt0(a) == a.c # "nan" /\ a.v > 0

\* f32::is_finite, f32::is_infinite
IsFinite(a) == a.c = "fin"
IsInfinite(a) == a.c = "inf"

\* ------------------------------------------------------------------ inputs

\* The weight 1.0: SampleDen quanta, so that the samples of a unit weight are exact.
One == Fin(SampleDen)
\* A weight whose quantum is larger than One, so that Big + One is rounded.
Big == Fin(5 * Pow2(MantBits))

\* The weights a caller passes: NaN, +inf, a negative one, 0.0, 1.0 and a large
\* one (Big + Big overflows while it is above f32::MAX).
Weights == {NaN, PosInf, FNeg(One), Zero, One, Big}

\* The values of type T a caller stores.  The code never inspects a value, so
\* the values of a run are taken pairwise distinct: each new entry carries the
\* least tag that no stored entry carries.
Individuals == 1..MaxLen
fresh(inds) ==
    CHOOSE t \in 1..(Len(inds) + 1) :
        /\ \A i \in 1..Len(inds) : inds[i] # t
        /\ \A u \in 1..(t - 1) : \E i \in 1..Len(inds) : inds[i] = u

\* The sequences of (weight, value) pairs of length at most MaxLen that a
\* caller collects or converts.
WeightSeqs == UNION {[1..n -> Weights] : n \in 0..MaxLen}
PairSeqs == {[i \in 1..Len(ws) |-> <<ws[i], i>>] : ws \in WeightSeqs}

\* The uniform samples: j stands for j / SampleDen.
Samples == 0..(SampleDen - 1)

\* ------------------------------------------------------------------ helpers

\* Vec::swap_remove: the last element takes the place of the removed one.
swap_remove(s, i) ==
    [k \in 1..(Len(s) - 1) |-> IF k = i THEN s[Len(s)] ELSE s[k]]

\* VecDeque::remove: the later elements move down by one.
deque_remove(s, i) ==
    [k \in 1..(Len(s) - 1) |-> IF k < i THEN s[k] ELSE s[k + 1]]

\* A scan that passes over a difference of exactly 0.
RECURSIVE position_strict(_, _, _)
position_strict(selection, fits, i) ==
    IF i > Len(fits) THEN 0
    ELSE LET s == FSub(selection, fits[i])
         IN  IF s.c # "nan" /\ s.v < 0 THEN i ELSE position_strict(s, fits, i + 1)

\* The cumulative-subtraction scan of Iterator::position: the first index at
\* which the running selection is <= 0.0, or 0 when there is none (None).
RECURSIVE position(_, _, _)
position(selection, fits, i) ==
    IF i > Len(fits) THEN 0
    ELSE LET s == FSub(selection, fits[i])
         IN  IF FLe0(s) THEN i ELSE position(s, fits, i + 1)

\* acc + fits[i] + fits[i+1] + ..., added left to right as the code's loops do.
RECURSIVE FSum(_, _, _)
FSum(acc, fits, i) ==
    IF i > Len(fits) THEN acc ELSE FSum(FAdd(acc, fits[i]), fits, i + 1)

\* What a call returned: the call, its arguments (the sample of a draw is not
\* kept), "ok" / "Some" / "None" /
\* "panic", and the item of a Some.
Ret(op, args, outcome, item) ==
    [op |-> op, args |-> args, outcome |-> outcome, item |-> item]

Panicked == ret.outcome = "panic"

\* ------------------------------------------------------------------ lib.rs

Wheel(t, f, p) == [total_fitness |-> t, fitnesses |-> f, population |-> p]

\* RouletteWheel::new
new == Wheel(Zero, <<>>, <<>>)

\* RouletteWheel::with_capacity: the capacity is not part of the value.
with_capacity(cap) == Wheel(Zero, <<>>, <<>>)

\* FromIterator::from_iter: sums and stores the pairs, with no assertion.
from_iter(pairs) ==
    LET fits == [i \in 1..Len(pairs) |-> pairs[i][1]]
        inds == [i \in 1..Len(pairs) |-> pairs[i][2]]
    IN  Wheel(FSum(Zero, fits, 1), fits, inds)

\* RouletteWheel::len, is_empty, total_fitness
len(w) == Len(w.population)
is_empty(w) == Len(w.population) = 0
total_fitness(w) == w.total_fitness

\* A clear that empties the values and keeps the weights.
clear_population(w) == Wheel(w.total_fitness, w.fitnesses, <<>>)

\* RouletteWheel::clear: empties both vectors and leaves total_fitness as it is.
clear(w) == Wheel(w.total_fitness, <<>>, <<>>)

\* RouletteWheel::unchecked_push
unchecked_push(w, fitness, individual) ==
    Wheel(FAdd(w.total_fitness, fitness),
          Append(w.fitnesses, fitness),
          Append(w.population, individual))

\* A push that appends and adds first and asserts afterwards.
push_then_assert(w, fitness, individual) ==
    LET after == unchecked_push(w, fitness, individual)
    IN  [w |-> after,
         outcome |-> IF FGe0(fitness) /\ IsFinite(after.total_fitness)
                     THEN "ok" ELSE "panic"]

\* RouletteWheel::push: the two assert! come before any change.
push(w, fitness, individual) ==
    IF ~FGe0(fitness) THEN [w |-> w, outcome |-> "panic"]
    ELSE IF ~IsFinite(FAdd(w.total_fitness, fitness)) THEN [w |-> w, outcome |-> "panic"]
    ELSE [w |-> unchecked_push(w, fitness, individual), outcome |-> "ok"]

\* SelectIter::from_rng: a copy of the total and of the (index, fitness) pairs.
select_from_rng(w) ==
    [total_fitness |-> w.total_fitness,
     fitnesses_ids |-> [i \in 1..Len(w.fitnesses) |-> <<i, w.fitnesses[i]>>]]

\* IntoSelectIter::from_rng: the wheel's fields, moved.
into_from_rng(w) ==
    [total_fitness |-> w.total_fitness,
     fitnesses |-> w.fitnesses,
     population |-> w.population]

NoSelectIter == [total_fitness |-> Zero, fitnesses_ids |-> <<>>]
NoIntoIter == [total_fitness |-> Zero, fitnesses |-> <<>>, population |-> <<>>]
NoSecond == [live |-> FALSE, it |-> NoSelectIter, yielded |-> <<>>]

\* A SelectIter::next that takes the value at the candidate's position in the
\* working list instead of at its stored index.
select_next_positional(it, w, j) ==
    IF it.fitnesses_ids # <<>>
    THEN LET selection == FMulSample(j, it.total_fitness)
             fits == [k \in 1..Len(it.fitnesses_ids) |-> it.fitnesses_ids[k][2]]
             index == position(selection, fits, 1)
         IN  IF index = 0
             THEN [it |-> it, outcome |-> "panic", item |-> <<>>]
             ELSE LET removed == it.fitnesses_ids[index]
                  IN  [it |-> [total_fitness |-> FSub(it.total_fitness, removed[2]),
                               fitnesses_ids |-> swap_remove(it.fitnesses_ids, index)],
                       outcome |-> "Some",
                       item |-> <<removed[2], w.population[index]>>]
    ELSE [it |-> it, outcome |-> "None", item |-> <<>>]

\* SelectIter::next on the sample j / SampleDen over the wheel w.
select_next(it, w, j) ==
    IF it.fitnesses_ids # <<>>
    THEN LET selection == FMulSample(j, it.total_fitness)
             fits == [k \in 1..Len(it.fitnesses_ids) |-> it.fitnesses_ids[k][2]]
             index == position(selection, fits, 1)
         IN  IF index = 0
             THEN [it |-> it, outcome |-> "panic", item |-> <<>>]
             ELSE LET removed == it.fitnesses_ids[index]
                  IN  [it |-> [total_fitness |-> FSub(it.total_fitness, removed[2]),
                               fitnesses_ids |-> swap_remove(it.fitnesses_ids, index)],
                       outcome |-> "Some",
                       item |-> <<removed[2], w.population[removed[1]]>>]
    ELSE [it |-> it, outcome |-> "None", item |-> <<>>]

\* An IntoSelectIter::next that removes with Vec::remove, keeping the order.
into_next_ordered(it, j) ==
    IF it.fitnesses # <<>>
    THEN LET selection == FMulSample(j, it.total_fitness)
             index == position(selection, it.fitnesses, 1)
         IN  IF index = 0
             THEN [it |-> it, outcome |-> "panic", item |-> <<>>]
             ELSE [it |-> [total_fitness |-> FSub(it.total_fitness, it.fitnesses[index]),
                           fitnesses |-> deque_remove(it.fitnesses, index),
                           population |-> deque_remove(it.population, index)],
                   outcome |-> "Some",
                   item |-> <<it.fitnesses[index], it.population[index]>>]
    ELSE [it |-> it, outcome |-> "None", item |-> <<>>]

\* IntoSelectIter::next on the sample j / SampleDen.
into_next(it, j) ==
    IF it.fitnesses # <<>>
    THEN LET selection == FMulSample(j, it.total_fitness)
             index == position(selection, it.fitnesses, 1)
         IN  IF index = 0
             THEN [it |-> it, outcome |-> "panic", item |-> <<>>]
             ELSE [it |-> [total_fitness |-> FSub(it.total_fitness, it.fitnesses[index]),
                           fitnesses |-> swap_remove(it.fitnesses, index),
                           population |-> swap_remove(it.population, index)],
                   outcome |-> "Some",
                   item |-> <<it.fitnesses[index], it.population[index]>>]
    ELSE [it |-> it, outcome |-> "None", item |-> <<>>]

\* ------------------------------------------------------------------ roulette_wheel.rs

CardsWheel(sum, cards) == [proba_sum |-> sum, cards |-> cards]

\* RouletteWheel::new, default, with_capacity
rw_new == CardsWheel(Zero, <<>>)

\* The probabilities of a sequence of (proba, data) cards.
probas(cards) == [i \in 1..Len(cards) |-> cards[i][1]]

\* From<&[(f32, T)]>: every proba >= 0.0 and their sum > 0.0, or it panics.
rw_from_ok(s) ==
    /\ \A i \in 1..Len(s) : FGe0(s[i][1])
    /\ FGt0(FSum(Zero, probas(s), 1))
rw_from(s) == CardsWheel(FSum(Zero, probas(s), 1), s)

\* RouletteWheel::len, is_empty, proba_sum
rw_len(w) == Len(w.cards)
rw_is_empty(w) == rw_len(w) = 0
proba_sum(w) == w.proba_sum

\* RouletteWheel::clear: empties the cards and leaves proba_sum as it is.
rw_clear(w) == CardsWheel(w.proba_sum, <<>>)

\* RouletteWheel::push: the sign is asserted first; the card is appended and
\* the sum updated before the sum is asserted not to be infinite.
rw_push(w, proba, data) ==
    IF ~FGe0(proba) THEN [w |-> w, outcome |-> "panic"]
    ELSE LET after == CardsWheel(FAdd(w.proba_sum, proba), Append(w.cards, <<proba, data>>))
         IN  [w |-> after,
              outcome |-> IF IsInfinite(after.proba_sum) THEN "panic" ELSE "ok"]

\* RouletteWheel::update_proba_sum: the sum is reset and rebuilt card by card;
\* a negative proba panics with the sum built so far.
RECURSIVE update_from(_, _, _)
update_from(sum, cards, i) ==
    IF i > Len(cards)
    THEN [w |-> CardsWheel(sum, cards),
          outcome |-> IF IsInfinite(sum) THEN "panic" ELSE "ok"]
    ELSE IF ~FGe0(cards[i][1])
         THEN [w |-> CardsWheel(sum, cards), outcome |-> "panic"]
         ELSE update_from(FAdd(sum, cards[i][1]), cards, i + 1)

\* An update_proba_sum that adds the cards to the sum it finds.
update_proba_sum_no_reset(w) == update_from(w.proba_sum, w.cards, 1)

\* RouletteWheel::update_proba_sum
update_proba_sum(w) == update_from(Zero, w.cards, 1)

\* RouletteWheel::gen_random_dist: gen_range(0., sum) is 0. + (sum - 0.) * sample.
gen_random_dist(w, j) ==
    IF FGt0(w.proba_sum) THEN FMulSample(j, w.proba_sum) ELSE Zero

\* A get_random_index that does not look at proba_sum.
get_random_index_any_sum(w, j) ==
    IF ~rw_is_empty(w)
    THEN position(gen_random_dist(w, j), probas(w.cards), 1)
    ELSE 0

\* RouletteWheel::get_random_index: the index, or 0 for None.
get_random_index(w, j) ==
    IF ~rw_is_empty(w) /\ FGt0(proba_sum(w))
    THEN position(gen_random_dist(w, j), probas(w.cards), 1)
    ELSE 0

\* RouletteWheel::pop
pop(w, j) ==
    LET index == get_random_index(w, j)
    IN  IF index # 0
        THEN [w |-> CardsWheel(FSub(w.proba_sum, w.cards[index][1]),
                               deque_remove(w.cards, index)),
              outcome |-> "Some",
              item |-> w.cards[index]]
        ELSE [w |-> w, outcome |-> "None", item |-> <<>>]

\* ------------------------------------------------------------------ the state machine

\* A run starts with a wheel just constructed, by any of the constructors.
InitLib ==
    /\ impl = "lib"
    /\ \/ wheel = new /\ ret = Ret("new", <<>>, "ok", <<>>)
       \/ \E cap \in 0..MaxLen :
            wheel = with_capacity(cap) /\ ret = Ret("with_capacity", <<cap>>, "ok", <<>>)
       \/ \E pairs \in PairSeqs :
            wheel = from_iter(pairs) /\ ret = Ret("from_iter", pairs, "ok", <<>>)
    /\ cards_wheel = rw_new

InitDeque ==
    /\ impl = "deque"
    /\ \/ cards_wheel = rw_new /\ ret = Ret("new", <<>>, "ok", <<>>)
       \/ \E s \in PairSeqs :
            /\ rw_from_ok(s)
            /\ cards_wheel = rw_from(s)
            /\ ret = Ret("from", s, "ok", <<>>)
    /\ wheel = new

Init ==
    /\ InitLib \/ InitDeque
    /\ holder = "wheel"
    /\ select_iter = NoSelectIter
    /\ into_iter = NoIntoIter
    /\ yielded = <<>>
    /\ second = NoSecond

\* rw.push(fitness, individual)
Push ==
    /\ impl = "lib" /\ holder = "wheel" /\ ~second.live /\ ~Panicked
    /\ len(wheel) < MaxLen
    /\ \E fitness \in Weights :
         LET individual == fresh(wheel.population)
             r == push(wheel, fitness, individual)
         IN  /\ wheel' = r.w
             /\ ret' = Ret("push", <<fitness, individual>>, r.outcome, <<>>)
    /\ UNCHANGED <<impl, second, holder, select_iter, into_iter, yielded, cards_wheel>>

\* rw.clear()
Clear ==
    /\ impl = "lib" /\ holder = "wheel" /\ ~second.live /\ ~Panicked
    /\ wheel' = clear(wheel)
    /\ ret' = Ret("clear", <<>>, "ok", <<>>)
    /\ UNCHANGED <<impl, second, holder, select_iter, into_iter, yielded, cards_wheel>>

\* rw.select_iter(): the session borrows the wheel, which cannot be changed
\* while the session lives.
SelectIterNew ==
    /\ impl = "lib" /\ holder = "wheel" /\ ~Panicked
    /\ select_iter' = select_from_rng(wheel)
    /\ holder' = "select_iter"
    /\ yielded' = <<>>
    /\ ret' = Ret("select_iter", <<>>, "ok", <<>>)
    /\ UNCHANGED <<impl, second, wheel, into_iter, cards_wheel>>

\* A SelectIter::next that writes its working total back to the wheel.
SelectIterNextSharedTotal ==
    /\ impl = "lib" /\ holder = "select_iter" /\ ~Panicked
    /\ \E j \in Samples :
         LET r == select_next(select_iter, wheel, j)
         IN  /\ select_iter' = r.it
             /\ wheel' = [wheel EXCEPT !.total_fitness = r.it.total_fitness]
             /\ yielded' = IF r.outcome = "Some" THEN Append(yielded, r.item) ELSE yielded
             /\ ret' = Ret("select_next", <<>>, r.outcome, r.item)
    /\ UNCHANGED <<impl, second, holder, into_iter, cards_wheel>>

\* SelectIter::next
SelectIterNext ==
    /\ impl = "lib" /\ holder = "select_iter" /\ ~Panicked
    /\ \E j \in Samples :
         LET r == select_next(select_iter, wheel, j)
         IN  /\ select_iter' = r.it
             /\ yielded' = IF r.outcome = "Some" THEN Append(yielded, r.item) ELSE yielded
             /\ ret' = Ret("select_next", <<>>, r.outcome, r.item)
    /\ UNCHANGED <<impl, second, wheel, holder, into_iter, cards_wheel>>

\* The session is dropped: the borrow ends.
SelectIterDrop ==
    /\ impl = "lib" /\ holder = "select_iter" /\ ~Panicked
    /\ select_iter' = NoSelectIter
    /\ holder' = "wheel"
    /\ yielded' = <<>>
    /\ ret' = Ret("drop", <<>>, "ok", <<>>)
    /\ UNCHANGED <<impl, second, wheel, into_iter, cards_wheel>>

\* rw.into_iter(): the wheel is moved into the iterator; wheel keeps the value
\* that was moved, for reference only.
IntoIterNew ==
    /\ impl = "lib" /\ holder = "wheel" /\ ~second.live /\ ~Panicked
    /\ into_iter' = into_from_rng(wheel)
    /\ holder' = "into_iter"
    /\ yielded' = <<>>
    /\ ret' = Ret("into_iter", <<>>, "ok", <<>>)
    /\ UNCHANGED <<impl, second, wheel, select_iter, cards_wheel>>

\* IntoSelectIter::next
IntoIterNext ==
    /\ impl = "lib" /\ holder = "into_iter" /\ ~Panicked
    /\ \E j \in Samples :
         LET r == into_next(into_iter, j)
         IN  /\ into_iter' = r.it
             /\ yielded' = IF r.outcome = "Some" THEN Append(yielded, r.item) ELSE yielded
             /\ ret' = Ret("into_next", <<>>, r.outcome, r.item)
    /\ UNCHANGED <<impl, second, wheel, holder, select_iter, cards_wheel>>

\* rw.select_iter() once more: a shared borrow, next to the first session.
SecondIterNew ==
    /\ impl = "lib" /\ holder \in {"wheel", "select_iter"} /\ ~Panicked
    /\ ~second.live
    /\ second' = [live |-> TRUE, it |-> select_from_rng(wheel), yielded |-> <<>>]
    /\ ret' = Ret("select_iter", <<2>>, "ok", <<>>)
    /\ UNCHANGED <<impl, wheel, holder, select_iter, into_iter, yielded, cards_wheel>>

\* A SelectIter::next of the second session that draws from the working copy
\* of the first one.
SecondIterNextShared ==
    /\ impl = "lib" /\ second.live /\ ~Panicked
    /\ \E j \in Samples :
         LET r == select_next(select_iter, wheel, j)
         IN  /\ select_iter' = r.it
             /\ second' = [second EXCEPT
                              !.it = r.it,
                              !.yielded = IF r.outcome = "Some" THEN Append(@, r.item) ELSE @]
             /\ ret' = Ret("select_next", <<2>>, r.outcome, r.item)
    /\ UNCHANGED <<impl, wheel, holder, into_iter, yielded, cards_wheel>>

\* SelectIter::next of the second session
SecondIterNext ==
    /\ impl = "lib" /\ second.live /\ ~Panicked
    /\ \E j \in Samples :
         LET r == select_next(second.it, wheel, j)
         IN  /\ second' = [second EXCEPT
                              !.it = r.it,
                              !.yielded = IF r.outcome = "Some" THEN Append(@, r.item) ELSE @]
             /\ ret' = Ret("select_next", <<2>>, r.outcome, r.item)
    /\ UNCHANGED <<impl, wheel, holder, select_iter, into_iter, yielded, cards_wheel>>

\* The second session is dropped.
SecondIterDrop ==
    /\ impl = "lib" /\ second.live /\ ~Panicked
    /\ second' = NoSecond
    /\ ret' = Ret("drop", <<2>>, "ok", <<>>)
    /\ UNCHANGED <<impl, wheel, holder, select_iter, into_iter, yielded, cards_wheel>>

\* roulette_wheel.rs: rw.push(proba, data)
CardsPush ==
    /\ impl = "deque" /\ ~Panicked
    /\ rw_len(cards_wheel) < MaxLen
    /\ \E proba \in Weights :
         LET data == fresh([i \in 1..Len(cards_wheel.cards) |-> cards_wheel.cards[i][2]])
             r == rw_push(cards_wheel, proba, data)
         IN  /\ cards_wheel' = r.w
             /\ ret' = Ret("push", <<proba, data>>, r.outcome, <<>>)
    /\ UNCHANGED <<impl, second, wheel, holder, select_iter, into_iter, yielded>>

\* roulette_wheel.rs: rw.clear()
CardsClear ==
    /\ impl = "deque" /\ ~Panicked
    /\ cards_wheel' = rw_clear(cards_wheel)
    /\ ret' = Ret("clear", <<>>, "ok", <<>>)
    /\ UNCHANGED <<impl, second, wheel, holder, select_iter, into_iter, yielded>>

\* roulette_wheel.rs: rw.update_proba_sum()
CardsUpdateProbaSum ==
    /\ impl = "deque" /\ ~Panicked
    /\ LET r == update_proba_sum(cards_wheel)
       IN  /\ cards_wheel' = r.w
           /\ ret' = Ret("update_proba_sum", <<>>, r.outcome, <<>>)
    /\ UNCHANGED <<impl, second, wheel, holder, select_iter, into_iter, yielded>>

\* roulette_wheel.rs: rw.pop(), also PopIter::next
CardsPop ==
    /\ impl = "deque" /\ ~Panicked
    /\ \E j \in Samples :
         LET r == pop(cards_wheel, j)
         IN  /\ cards_wheel' = r.w
             /\ ret' = Ret("pop", <<>>, r.outcome, r.item)
    /\ UNCHANGED <<impl, second, wheel, holder, select_iter, into_iter, yielded>>

Next ==
    \/ Push
    \/ Clear
    \/ SelectIterNew
    \/ SelectIterNext
    \/ SelectIterDrop
    \/ IntoIterNew
    \/ IntoIterNext
    \/ CardsPush
    \/ CardsClear
    \/ CardsUpdateProbaSum
    \/ CardsPop

Spec == Init /\ [][Next]_vars

\* Two borrowing sessions over one wheel of lib.rs: the wheel is collected from
\* at most MaxShared pairs, and the two sessions are created, advanced and
\* dropped in any interleaving.
InitSessions ==
    /\ impl = "lib"
    /\ \E pairs \in PairSeqs :
         /\ Len(pairs) <= MaxShared
         /\ wheel = from_iter(pairs)
         /\ ret = Ret("from_iter", pairs, "ok", <<>>)
    /\ cards_wheel = rw_new
    /\ holder = "wheel"
    /\ select_iter = NoSelectIter
    /\ into_iter = NoIntoIter
    /\ yielded = <<>>
    /\ second = NoSecond

NextSessions ==
    \/ SelectIterNew
    \/ SelectIterNext
    \/ SelectIterDrop
    \/ SecondIterNew
    \/ SecondIterNext
    \/ SecondIterDrop

SpecSessions == InitSessions /\ [][NextSessions]_vars

\* ------------------------------------------------------------------ claims

\* The weights the data model allows: finite and non-negative.
ValidWeights(fits) == \A i \in 1..Len(fits) : IsFinite(fits[i]) /\ FGe0(fits[i])
ZeroWeights(fits) == \A i \in 1..Len(fits) : fits[i] = Zero

\* A wheel made of allowed weights with a finite, non-negative total: what push
\* accepts.
Insertable(w) ==
    /\ ValidWeights(w.fitnesses)
    /\ IsFinite(w.total_fitness) /\ FGe0(w.total_fitness)

\* A wheel as valid inserts alone leave it: allowed weights, and a finite total
\* that is their sum in insertion order.
Built(w) ==
    /\ Insertable(w)
    /\ w.total_fitness = FSum(Zero, w.fitnesses, 1)

\* new() followed by a push of each pair in order, stopping at the first panic.
RECURSIVE push_all(_, _, _)
push_all(w, pairs, i) ==
    IF i > Len(pairs) THEN [w |-> w, outcome |-> "ok"]
    ELSE LET r == push(w, pairs[i][1], pairs[i][2])
         IN  IF r.outcome = "panic" THEN r ELSE push_all(r.w, pairs, i + 1)

\* The fitnesses of the candidates a SelectIter still holds.
Candidates(it) == [k \in 1..Len(it.fitnesses_ids) |-> it.fitnesses_ids[k][2]]

\* C1: whenever the caller holds the wheel of lib.rs (after new, with_capacity,
\* from_iter, push and clear calls), total_fitness() is the sum of the stored
\* fitnesses.
C1_TotalIsSum ==
    (impl = "lib" /\ holder = "wheel")
        => total_fitness(wheel) = FSum(Zero, wheel.fitnesses, 1)

\* C2: clear() leaves the wheel as new() makes it, and an empty wheel has a
\* total of 0, in lib.rs and in roulette_wheel.rs.
C2_ClearResets ==
    /\ (impl = "lib" /\ ret.op = "clear") => wheel = new
    /\ (impl = "lib" /\ holder = "wheel" /\ is_empty(wheel))
           => total_fitness(wheel) = Zero
    /\ (impl = "deque" /\ ret.op = "clear") => cards_wheel = rw_new
    /\ (impl = "deque" /\ rw_is_empty(cards_wheel)) => proba_sum(cards_wheel) = Zero

\* C3: a draw over a non-empty candidate set returns Some for every sample and
\* never panics, in both draw sessions (stated for the wheels that hold allowed
\* weights and a finite, non-negative total).
C3_DrawSelects ==
    /\ (holder = "select_iter" /\ ~Panicked /\ select_iter.fitnesses_ids # <<>>
            /\ Insertable(wheel))
           => \A j \in Samples : select_next(select_iter, wheel, j).outcome = "Some"
    /\ (holder = "into_iter" /\ ~Panicked /\ into_iter.fitnesses # <<>>
            /\ Insertable(wheel))
           => \A j \in Samples : into_next(into_iter, j).outcome = "Some"

C6_CollectIsRepeatedPush ==
    (impl = "lib" /\ ret.op = "from_iter")
        => /\ push_all(new, ret.args, 1).outcome = "ok"
           /\ wheel = push_all(new, ret.args, 1).w

\* C7: while the caller holds a wheel of lib.rs built by new, with_capacity,
\* from_iter, push and clear, every stored weight is finite and non-negative and
\* the total is finite and non-negative.
C7_WeightsAndTotalValid ==
    (impl = "lib" /\ holder = "wheel") => Insertable(wheel)

\* C8: a push of lib.rs whose weight is negative or not finite, or whose sum
\* with the total is not finite, panics and leaves the entries and the total as
\* they were.
C8_RejectedPushChangesNothing ==
    [][(/\ impl = "lib" /\ ret'.op = "push"
        /\ \/ ~FGe0(ret'.args[1])
           \/ ~IsFinite(ret'.args[1])
           \/ ~IsFinite(FAdd(wheel.total_fitness, ret'.args[1])))
          => /\ ret'.outcome = "panic"
             /\ len(wheel') = len(wheel)
             /\ total_fitness(wheel') = total_fitness(wheel)
             /\ wheel' = wheel]_vars

\* C8 witness: a push onto a non-empty wheel was rejected for overflow.
C8_Witness ==
    /\ impl = "lib" /\ ret.op = "push" /\ ret.outcome = "panic"
    /\ len(wheel) > 0
    /\ FGe0(ret.args[1]) /\ IsFinite(ret.args[1])

\* C9: over a wheel of N entries built by valid inserts, a session (consuming or
\* borrowing) never panics, returns None only after N items, and the consuming
\* one then holds no entry and a working total of 0.
C9_Exhaustion ==
    (impl = "lib" /\ Built(wheel))
        => /\ ret.op \in {"into_next", "select_next"} => ret.outcome # "panic"
           /\ (ret.op \in {"into_next", "select_next"} /\ ret.outcome = "None")
                  => Len(yielded) = len(wheel)
           /\ (ret.op = "into_next" /\ ret.outcome = "None")
                  => /\ into_iter.fitnesses = <<>>
                     /\ into_iter.population = <<>>
                     /\ into_iter.total_fitness = Zero

\* C10: no step of a borrowing session (its creation, a next, its drop) changes
\* the wheel: the entries, their order and total_fitness stay as they were.
C10_BorrowingLeavesWheel ==
    [][(holder = "select_iter" \/ holder' = "select_iter") => wheel' = wheel]_vars

\* C10 witness: a borrowing session over a wheel of at least two entries has
\* returned them all and then None.
C10_Witness ==
    /\ holder = "select_iter"
    /\ ret.op = "select_next" /\ ret.outcome = "None"
    /\ len(wheel) >= 2
    /\ Len(yielded) = len(wheel)

\* The consuming session that holds what the borrowing session it holds: the
\* same working total, and the candidates' weights and values in the same order.
AsInto(it, w) ==
    [total_fitness |-> it.total_fitness,
     fitnesses |-> Candidates(it),
     population |-> [k \in 1..Len(it.fitnesses_ids) |-> w.population[it.fitnesses_ids[k][1]]]]

\* C11: a borrowing session and a consuming session over the same wheel start
\* alike, and from like states the same sample gives them the same result (the
\* same Some item, None or panic) and like states again: the same samples give
\* the same sequence of results.
C11_SameDraws ==
    /\ (impl = "lib" /\ holder = "wheel")
           => AsInto(select_from_rng(wheel), wheel) = into_from_rng(wheel)
    /\ (impl = "lib" /\ holder = "select_iter")
           => \A j \in Samples :
                 LET b == select_next(select_iter, wheel, j)
                     c == into_next(AsInto(select_iter, wheel), j)
                 IN  /\ b.outcome = c.outcome
                     /\ b.item = c.item
                     /\ AsInto(b.it, wheel) = c.it

\* C11 witness: a borrowing session over three entries drew the first one, so
\* that the last candidate took its place, and then drew again.
C11_Witness ==
    /\ holder = "select_iter" /\ len(wheel) = 3
    /\ Len(yielded) = 2 /\ yielded[1][2] = 1
    /\ ret.op = "select_next" /\ ret.outcome = "Some"

\* target - (w_1 + ... + w_i) in real arithmetic, for a finite target and
\* finite weights.
RECURSIVE ExactRest(_, _, _)
ExactRest(target, fits, i) ==
    IF i = 0 THEN target.v ELSE ExactRest(target, fits, i - 1) - fits[i].v

\* The running differences of the scan, as a sequence: the i-th is
\* ((target - w_1) - w_2) ... - w_i, one f32 subtraction per entry in scan order.
RECURSIVE ScanFrom(_, _, _, _)
ScanFrom(rest, last, fits, i) ==
    IF i > Len(fits) THEN rest
    ELSE LET s == FSub(last, fits[i])
         IN  ScanFrom(Append(rest, s), s, fits, i + 1)
ScanRest(target, fits) == ScanFrom(<<>>, target, fits, 1)

\* i is the smallest index at which the real difference is <= 0.
ExactFirst(target, fits, i) ==
    /\ ExactRest(target, fits, i) <= 0
    /\ \A k \in 1..(i - 1) : ExactRest(target, fits, k) > 0

\* i is the smallest index at which the running difference of the scan is <= 0.
ScanFirst(rest, i) ==
    /\ FLe0(rest[i])
    /\ \A k \in 1..(i - 1) : ~FLe0(rest[k])

C13_SingleEntryDraws ==
    (impl = "lib" /\ holder = "wheel" /\ ~Panicked
        /\ len(wheel) = 1 /\ ValidWeights(wheel.fitnesses))
        => \A j \in Samples :
              LET entry == <<wheel.fitnesses[1], wheel.population[1]>>
                  b == select_next(select_from_rng(wheel), wheel, j)
                  c == into_next(into_from_rng(wheel), j)
              IN  /\ b.outcome = "Some" /\ b.item = entry
                  /\ c.outcome = "Some" /\ c.item = entry

\* C14: for a sequence of pairs whose weights are all finite and non-negative,
\* pushing the pairs one by one onto new() succeeds and gives the wheel that
\* from_iter collects from them: the same length, total_fitness and entries in
\* the same order.
C14_RoundTrip ==
    (impl = "lib" /\ ret.op = "from_iter"
        /\ ValidWeights([i \in 1..Len(ret.args) |-> ret.args[i][1]]))
        => LET pushed == push_all(new, ret.args, 1)
           IN  /\ pushed.outcome = "ok"
               /\ len(pushed.w) = len(wheel)
               /\ total_fitness(pushed.w) = total_fitness(wheel)
               /\ pushed.w.fitnesses = wheel.fitnesses
               /\ pushed.w.population = wheel.population

\* A session (its state and what it has yielded so far) after one more next on
\* the sample j, run alone over the wheel w.
SoloStep(s, w, j) ==
    LET r == select_next(s[1], w, j)
    IN  IF r.outcome = "Some" THEN <<r.it, Append(s[2], r.item)>> ELSE s

\* The sessions a run alone over w reaches with at most n calls of next.
RECURSIVE SoloRuns(_, _)
SoloRuns(w, n) ==
    IF n = 0 THEN {<<select_from_rng(w), <<>>>>}
    ELSE LET prev == SoloRuns(w, n - 1)
         IN  prev \cup {SoloStep(s, w, j) : s \in prev, j \in Samples}

\* C15: with two borrowing sessions over one wheel advanced in any
\* interleaving, each session is always in a state, with a sequence of yielded
\* items, that a run alone over the wheel reaches; a call of next on one session
\* is the next of a run alone on that session's own state and leaves the other
\* session as it was; no step changes the wheel; and a session created at any
\* time, also after another was dropped or exhausted, starts from all the
\* entries and the wheel's total.
C15_SessionsIndependent ==
    /\ [](/\ holder = "select_iter" => <<select_iter, yielded>> \in SoloRuns(wheel, len(wheel))
          /\ second.live => <<second.it, second.yielded>> \in SoloRuns(wheel, len(wheel)))
    /\ [][/\ wheel' = wheel
          /\ (ret'.op = "select_next" /\ ret'.args = <<>>)
                => /\ second' = second
                   /\ \E j \in Samples :
                         LET r == select_next(select_iter, wheel, j)
                         IN  /\ ret'.outcome = r.outcome /\ ret'.item = r.item
                             /\ <<select_iter', yielded'>> = SoloStep(<<select_iter, yielded>>, wheel, j)
          /\ (ret'.op = "select_next" /\ ret'.args = <<2>>)
                => /\ <<select_iter', yielded', holder'>> = <<select_iter, yielded, holder>>
                   /\ \E j \in Samples :
                         LET r == select_next(second.it, wheel, j)
                         IN  /\ ret'.outcome = r.outcome /\ ret'.item = r.item
                             /\ <<second'.it, second'.yielded>>
                                    = SoloStep(<<second.it, second.yielded>>, wheel, j)
          /\ (ret'.op = "select_iter" /\ ret'.args = <<>>)
                => /\ second' = second
                   /\ select_iter' = select_from_rng(wheel) /\ yielded' = <<>>
                   /\ Len(select_iter'.fitnesses_ids) = len(wheel)
          /\ (ret'.op = "select_iter" /\ ret'.args = <<2>>)
                => /\ <<select_iter', yielded', holder'>> = <<select_iter, yielded, holder>>
                   /\ second'.it = select_from_rng(wheel) /\ second'.yielded = <<>>
                   /\ Len(second'.it.fitnesses_ids) = len(wheel)
          /\ (ret'.op = "drop" /\ ret'.args = <<>>) => second' = second
          /\ (ret'.op = "drop" /\ ret'.args = <<2>>)
                => <<select_iter', yielded', holder'>> = <<select_iter, yielded, holder>>
         ]_vars

\* C15 witness: over a wheel of two entries the first session has yielded both
\* entries while the second session, still live, has yielded the other entry
\* first.
C15_Witness ==
    /\ len(wheel) = 2
    /\ holder = "select_iter" /\ Len(yielded) = 2
    /\ second.live /\ Len(second.yielded) = 1
    /\ second.yielded[1] # yielded[1]
    /\ ret.op = "select_next" /\ ret.args = <<>> /\ ret.outcome = "Some"

\* C16: in lib.rs len() is the number of stored entries: the weight vector and
\* the value vector always have the same length, which len() returns; it is 0
\* for a wheel made by new or with_capacity and after clear; a push that
\* succeeds raises it by exactly 1 and a push that panics leaves it.
C16_Len ==
    /\ [](impl = "lib"
            => /\ Len(wheel.fitnesses) = Len(wheel.population)
               /\ len(wheel) = Len(wheel.fitnesses)
               /\ ret.op \in {"new", "with_capacity", "clear"} => len(wheel) = 0)
    /\ [][(impl = "lib" /\ ret'.op = "push")
            => len(wheel') = len(wheel) + (IF ret'.outcome = "ok" THEN 1 ELSE 0)]_vars

\* C16 witness: a wheel that was cleared holds MaxLen entries again after a push
\* that succeeded.
C16_Witness ==
    /\ impl = "lib" /\ ret.op = "push" /\ ret.outcome = "ok"
    /\ len(wheel) = MaxLen
    /\ total_fitness(wheel) # FSum(Zero, wheel.fitnesses, 1)

\* C17: in roulette_wheel.rs, when pop() returns None the wheel is empty
\* (stated for the wheels whose cards all have a finite weight > 0 and whose
\* proba_sum is finite).
C17_NoneMeansEmpty ==
    (impl = "deque" /\ ret.op = "pop" /\ ret.outcome = "None"
        /\ IsFinite(proba_sum(cards_wheel))
        /\ \A i \in 1..rw_len(cards_wheel) :
              IsFinite(cards_wheel.cards[i][1]) /\ FGt0(cards_wheel.cards[i][1]))
        => rw_is_empty(cards_wheel)

\* C18: a push of roulette_wheel.rs of a finite weight >= 0 onto a finite
\* proba_sum that the weight makes overflow panics with the card not appended
\* and proba_sum as it was.
C18_OverflowPushRejected ==
    [][(/\ impl = "deque" /\ ret'.op = "push"
        /\ FGe0(ret'.args[1]) /\ IsFinite(ret'.args[1])
        /\ IsFinite(proba_sum(cards_wheel))
        /\ ~IsFinite(FAdd(proba_sum(cards_wheel), ret'.args[1])))
          => /\ ret'.outcome = "panic"
             /\ cards_wheel'.cards = cards_wheel.cards
             /\ proba_sum(cards_wheel') = proba_sum(cards_wheel)]_vars

\* C19: in a session, borrowing or consuming, over a wheel of allowed weights
\* whose total is the sum of its weights, the working total is at every moment
\* the sum of the weights of the candidates that are left.
C19_WorkingTotalIsSum ==
    /\ (holder = "select_iter" /\ Built(wheel))
           => select_iter.total_fitness = FSum(Zero, Candidates(select_iter), 1)
    /\ (holder = "into_iter" /\ Built(wheel))
           => into_iter.total_fitness = FSum(Zero, into_iter.fitnesses, 1)

\* The (weight, value) pairs stored in the wheel w, and the pairs a session
\* still holds as candidates.
Entries(w) == {<<w.fitnesses[i], w.population[i]>> : i \in 1..len(w)}
Left ==
    IF holder = "select_iter"
    THEN {<<select_iter.fitnesses_ids[k][2], wheel.population[select_iter.fitnesses_ids[k][1]]>> :
              k \in 1..Len(select_iter.fitnesses_ids)}
    ELSE {<<into_iter.fitnesses[k], into_iter.population[k]>> :
              k \in 1..Len(into_iter.fitnesses)}

\* C20: in a session, borrowing or consuming, every item yielded is a (weight,
\* value) pair of the wheel as it was inserted, no entry is yielded twice, the
\* entries not yet yielded are exactly the candidates left, and a session that
\* has returned None has yielded every entry: a permutation of the entries.
C20_DrawsArePermutation ==
    (holder \in {"select_iter", "into_iter"})
        => /\ \A k \in 1..Len(yielded) : yielded[k] \in Entries(wheel)
           /\ \A k, l \in 1..Len(yielded) : k # l => yielded[k][2] # yielded[l][2]
           /\ Left = Entries(wheel) \ {yielded[k] : k \in 1..Len(yielded)}
           /\ Cardinality(Left) + Len(yielded) = len(wheel)
           /\ (ret.op \in {"select_next", "into_next"} /\ ret.outcome = "None")
                  => {yielded[k] : k \in 1..Len(yielded)} = Entries(wheel)

\* C20 witness: a session over three entries of three different weights drew
\* the first entry first, so that the last one took its place, then the other
\* two, and returned None.
C20_Witness ==
    /\ holder \in {"select_iter", "into_iter"}
    /\ len(wheel) = 3 /\ Cardinality({wheel.fitnesses[i] : i \in 1..3}) = 3
    /\ Len(yielded) = 3 /\ yielded[1][2] = 1
    /\ ret.outcome = "None"

\* C21: in a session, borrowing or consuming, over a wheel of allowed weights
\* whose total is the sum of its weights, no sample makes a draw return an
\* entry of weight 0 while a candidate of positive weight is left.
C21_ZeroWeightNotDrawn ==
    /\ (holder = "select_iter" /\ ~Panicked /\ Built(wheel))
           => \A j \in Samples :
                 LET r == select_next(select_iter, wheel, j)
                 IN  (r.outcome = "Some" /\ r.item[1] = Zero)
                         => ZeroWeights(Candidates(select_iter))
    /\ (holder = "into_iter" /\ ~Panicked /\ Built(wheel))
           => \A j \in Samples :
                 LET r == into_next(into_iter, j)
                 IN  (r.outcome = "Some" /\ r.item[1] = Zero)
                         => ZeroWeights(into_iter.fitnesses)

\* C22: in roulette_wheel.rs, whatever proba_sum was before, when
\* update_proba_sum returns proba_sum is the sum of the stored cards' weights
\* (added in f32 in storage order, starting from 0.0), the cards are as they
\* were, and a second call would return too and change nothing.
C22_UpdateRestoresSum ==
    /\ []((impl = "deque" /\ ret.op = "update_proba_sum" /\ ret.outcome = "ok")
            => /\ proba_sum(cards_wheel) = FSum(Zero, probas(cards_wheel.cards), 1)
               /\ update_proba_sum(cards_wheel) = [w |-> cards_wheel, outcome |-> "ok"])
    /\ [][(impl = "deque" /\ ret'.op = "update_proba_sum" /\ ret'.outcome = "ok")
            => cards_wheel'.cards = cards_wheel.cards]_vars

\* C22 witness: update_proba_sum has returned over two or more cards of
\* positive weight whose sum is rounded.
C22_Witness ==
    /\ impl = "deque" /\ ret.op = "update_proba_sum" /\ ret.outcome = "ok"
    /\ rw_len(cards_wheel) >= 2
    /\ \A i \in 1..rw_len(cards_wheel) : FGt0(cards_wheel.cards[i][1])
    /\ \E i \in 1..rw_len(cards_wheel) : cards_wheel.cards[i][1] = Big

====
